---- MODULE Spec2Model ----
(***************************************************************************)
(* A model of the QMC5883LCompass driver (src/src/QMC5883LCompass.cpp,     *)
(* src/src/QMC5883LCompass.h): calibration, auto-calibration, smoothing,   *)
(* the blocking calibrate() session and the bearing computation.           *)
(*                                                                         *)
(* The driver object is the record `compass`, one field per data member.   *)
(* Floats are kept exactly: an offset is stored doubled (every offset the  *)
(* driver derives is a half-integer), a scale is a fraction <<num, den>>   *)
(* in lowest terms, with <<1, 0>> for +Inf and <<0, 0>> for NaN.  The      *)
(* quotients and products are exact where the driver's floats are rounded; *)
(* the two differ at most in how a tie of round() falls.                   *)
(***************************************************************************)
EXTENDS Integers, Sequences, FiniteSets, TLC

VARIABLES
    compass,     \* the QMC5883LCompass object
    fill,        \* what the uninitialised members held at construction
    intBits,     \* width of int / unsigned int on the build's target
    pc,          \* position of the caller: "idle", or inside calibrate()
    totalMillis, \* calibrate(): local
    startTime,   \* calibrate(): local
    elapsedMillis, \* calibrate(): local
    millis,      \* the host clock, in ms
    cbs,         \* the (progress, foundNewValue) pairs handed to the callback
    last,        \* the last operation: its name, bus code and return value
    sess,        \* what the device delivered during the calibrate() session
    reconfigured, \* setSmoothing() was called after _smoothing() had run
    reads,       \* number of read() calls the sketch has made
    azimuth,     \* argument of getBearing()/getDirection()
    bearing,     \* result of getBearing(), -1 before the call
    direction    \* result of getDirection(), <<>> before the call

vars == <<compass, fill, intBits, pc, totalMillis, startTime, elapsedMillis,
          millis, cbs, last, sess, reconfigured, reads, azimuth, bearing,
          direction>>

----------------------------------------------------------------------------
\* Bounds of the model

MaxReads == 3
MaxSteps == 2
MaxPolls == 3
MaxPreReads == 1
MaxSeconds == 2
MaxAzimuth == 360
RampLen == 5
TickMillis == 400

\* Program constants

HistoryRows == 10
MaxSmoothSteps == 10
SentinelExtreme == 65000
DefaultSeconds == 10000
MillisPerSecond == 1000
FullCircle == 360
SectorCount == 16

Axes == 0..2

\* Three-axis samples the device delivers
Samples == { <<5, -5, 1>>, <<-5, 5, 3>>, <<0, 0, 0>> }

\* The samples 10, 20, 30, 40, 50 on every axis
RampSamples == { <<10 * k, 10 * k, 10 * k>> : k \in 1..RampLen }

\* Transmission codes of endTransmission(): 0 is success
BusCodes == {0, 2}

\* What the conversion of a NaN or an infinite float to int may produce
UBInts == {0, -99}

\* What uninitialised storage may hold: zero (static storage) or junk
FillValues == {0, 7}

Vec(s) == [i \in Axes |-> s[i + 1]]

----------------------------------------------------------------------------
\* Arithmetic

Abs(n) == IF n < 0 THEN -n ELSE n

RECURSIVE Gcd(_, _)
Gcd(a, b) == IF b = 0 THEN a ELSE Gcd(b, a % b)

\* The float n / d, as a fraction in lowest terms; d = 0 gives NaN or +-Inf
Frac(n, d) ==
    IF d = 0 THEN <<(IF n > 0 THEN 1 ELSE IF n < 0 THEN -1 ELSE 0), 0>>
    ELSE LET g == Gcd(Abs(n), Abs(d))
             sgn == IF d < 0 THEN -1 ELSE 1
         IN  <<(sgn * n) \div g, (sgn * d) \div g>>

\* round(n / d), halves away from zero, for d # 0
Round(n, d) ==
    LET nn == IF d < 0 THEN -n ELSE n
        dd == Abs(d)
    IN  IF nn >= 0 THEN (2 * nn + dd) \div (2 * dd)
        ELSE -((2 * (-nn) + dd) \div (2 * dd))

\* (int)round(n / d): undefined for a NaN or infinite quotient, where ub is
\* what the build happens to produce
RoundToInt(n, d, ub) == IF d = 0 THEN ub ELSE Round(n, d)

\* (int)v for a literal v on a build whose int has the given width
ToInt(v, bits) ==
    IF bits = 16 THEN ((v + 32768) % 65536) - 32768 ELSE v

\* unsigned int arithmetic on a build whose int has the given width (the
\* products of this model stay below 2^32)
ToUInt(v, bits) == IF bits = 16 THEN v % 65536 ELSE v

----------------------------------------------------------------------------
\* The driver object

Fresh(f, bits) ==
    [ _autoCalibrate |-> FALSE,
      _smoothUse |-> FALSE,
      _smoothSteps |-> 5,
      _smoothAdvanced |-> FALSE,
      _vRaw |-> [i \in Axes |-> 0],
      _vHistory |-> [j \in 0..(HistoryRows - 1) |-> [i \in Axes |-> f]],
      _vScan |-> 0,
      _vTotals |-> [i \in Axes |-> 0],
      _vSmooth |-> [i \in Axes |-> 0],
      _offset |-> [i \in Axes |-> 0],
      _scale |-> [i \in Axes |-> <<1, 1>>],
      _vCalibrated |-> [i \in Axes |-> f],
      min |-> [i \in Axes |-> ToInt(SentinelExtreme, bits)],
      max |-> [i \in Axes |-> ToInt(-SentinelExtreme, bits)] ]

setAutocalibrate(c, autoCalibrateEnabled) ==
    [c EXCEPT !._autoCalibrate = autoCalibrateEnabled]

setSmoothing(c, steps, adv) ==
    [c EXCEPT !._smoothUse = TRUE,
              !._smoothSteps = IF steps > MaxSmoothSteps THEN MaxSmoothSteps
                               ELSE steps,
              !._smoothAdvanced = adv]

\* Offsets are passed doubled
setCalibrationOffsets(c, x2, y2, z2) ==
    [c EXCEPT !._offset = [i \in Axes |->
                              IF i = 0 THEN x2 ELSE IF i = 1 THEN y2 ELSE z2]]

setCalibrationScales(c, xs, ys, zs) ==
    [c EXCEPT !._scale = [i \in Axes |->
                             IF i = 0 THEN xs ELSE IF i = 1 THEN ys ELSE zs]]

clearCalibration(c) ==
    setCalibrationScales(setCalibrationOffsets(c, 0, 0, 0),
                         <<1, 1>>, <<1, 1>>, <<1, 1>>)

\* mn, mx: the per-axis minima and maxima
setCalibration(c, mn, mx) ==
    LET c1 == setCalibrationOffsets(c, mn[0] + mx[0], mn[1] + mx[1],
                                       mn[2] * mx[2])
        \* x_avg_delta etc., doubled; avg_delta = sum6 / 6
        d2 == [i \in Axes |-> mx[i] - mn[i]]
        sum6 == d2[0] + d2[1] + d2[2]
    IN  setCalibrationScales(c1, Frac(sum6, 3 * d2[0]), Frac(sum6, 3 * d2[1]),
                                 Frac(sum6, 3 * d2[2]))

\* _applyCalibrationIfNecessary with <= and >= for < and >
ApplyIfNecessary_NotStrict(c, s) ==
    LET mn == [i \in Axes |-> IF s[i] <= c.min[i] THEN s[i] ELSE c.min[i]]
        mx == [i \in Axes |-> IF s[i] >= c.max[i] THEN s[i] ELSE c.max[i]]
        foundNewValue == \E i \in Axes : s[i] <= c.min[i] \/ s[i] >= c.max[i]
        c1 == [c EXCEPT !.min = mn, !.max = mx]
    IN  IF foundNewValue THEN <<setCalibration(c1, mn, mx), TRUE>>
        ELSE <<c1, FALSE>>

\* The result is <<object, foundNewValue>>
_applyCalibrationIfNecessary(c, s) ==
    LET mn == [i \in Axes |-> IF s[i] < c.min[i] THEN s[i] ELSE c.min[i]]
        \* the max test reads the min just written, which it cannot affect
        mx == [i \in Axes |-> IF s[i] > c.max[i] THEN s[i] ELSE c.max[i]]
        foundNewValue == \E i \in Axes : s[i] < c.min[i] \/ s[i] > c.max[i]
        c1 == [c EXCEPT !.min = mn, !.max = mx]
    IN  IF foundNewValue THEN <<setCalibration(c1, mn, mx), TRUE>>
        ELSE <<c1, FALSE>>

\* (raw - offset) * scale = (2 raw - offset2) * num / (2 den); a NaN or
\* infinite scale makes the product NaN or infinite
_applyCalibration(c, ub) ==
    [c EXCEPT !._vCalibrated = [i \in Axes |->
        RoundToInt((2 * c._vRaw[i] - c._offset[i]) * c._scale[i][1],
                   2 * c._scale[i][2], ub)]]

\* Index of the first largest (dir = 1) or smallest (dir = -1) entry of
\* column i among rows 0..n-1, scanning upward from row 0
RECURSIVE ScanExtreme(_, _, _, _)
ScanExtreme(h, i, n, dir) ==
    IF n <= 0 THEN 0
    ELSE LET m == ScanExtreme(h, i, n - 1, dir)
             j == n - 1
         IN  IF dir * h[j][i] > dir * h[m][i] THEN j ELSE m

\* _smoothing with the total updated before the history row is overwritten
Smoothing_StaleAdd(c, ub) ==
    LET scan == IF c._vScan > c._smoothSteps - 1 THEN 0 ELSE c._vScan
        evicted == [i \in Axes |->
                      IF c._vTotals[i] # 0 THEN c._vTotals[i] - c._vHistory[scan][i]
                      ELSE c._vTotals[i]]
        hist == [c._vHistory EXCEPT ![scan] = c._vCalibrated]
        totals == [i \in Axes |-> evicted[i] + c._vHistory[scan][i]]
        smooth == [i \in Axes |->
                     IF c._smoothAdvanced
                     THEN RoundToInt(totals[i]
                                       - (hist[ScanExtreme(hist, i, c._smoothSteps - 1, 1)][i]
                                          + hist[ScanExtreme(hist, i, c._smoothSteps - 1, -1)][i]),
                                     c._smoothSteps - 2, ub)
                     ELSE RoundToInt(totals[i], c._smoothSteps, ub)]
    IN  [c EXCEPT !._vHistory = hist, !._vTotals = totals, !._vSmooth = smooth,
                  !._vScan = scan + 1]

_smoothing(c, ub) ==
    LET scan == IF c._vScan > c._smoothSteps - 1 THEN 0 ELSE c._vScan
        evicted == [i \in Axes |->
                      IF c._vTotals[i] # 0 THEN c._vTotals[i] - c._vHistory[scan][i]
                      ELSE c._vTotals[i]]
        hist == [c._vHistory EXCEPT ![scan] = c._vCalibrated]
        totals == [i \in Axes |-> evicted[i] + hist[scan][i]]
        mxi(i) == ScanExtreme(hist, i, c._smoothSteps - 1, 1)
        mni(i) == ScanExtreme(hist, i, c._smoothSteps - 1, -1)
        smooth == [i \in Axes |->
                     IF c._smoothAdvanced
                     THEN RoundToInt(totals[i] - (hist[mxi(i)][i] + hist[mni(i)][i]),
                                     c._smoothSteps - 2, ub)
                     ELSE RoundToInt(totals[i], c._smoothSteps, ub)]
    IN  [c EXCEPT !._vHistory = hist, !._vTotals = totals, !._vSmooth = smooth,
                  !._vScan = scan + 1]

\* read() with its steps run whatever endTransmission() returned
Read_IgnoresError(c, err, s, ub) ==
    LET ac == IF c._autoCalibrate THEN _applyCalibrationIfNecessary(c, s)
              ELSE <<c, FALSE>>
        c1 == [ac[1] EXCEPT !._vRaw = s]
        c2 == _applyCalibration(c1, ub)
        c3 == IF c2._smoothUse THEN _smoothing(c2, ub) ELSE c2
    IN  <<c3, ac[2]>>

\* err: the code of endTransmission(); s: the sample the device delivers;
\* ub: the outcome of an undefined float-to-int conversion, should one occur.
\* The result is <<object, return value>>
read(c, err, s, ub) ==
    IF err # 0 THEN <<c, FALSE>>
    ELSE LET ac == IF c._autoCalibrate THEN _applyCalibrationIfNecessary(c, s)
                   ELSE <<c, FALSE>>
             c1 == [ac[1] EXCEPT !._vRaw = s]
             c2 == _applyCalibration(c1, ub)
             c3 == IF c2._smoothUse THEN _smoothing(c2, ub) ELSE c2
         IN  <<c3, ac[2]>>

_get(c, i) == IF c._smoothUse THEN c._vSmooth[i] ELSE c._vCalibrated[i]

\* The rows of _bearings, row d at position d + 1
Bearings ==
    << <<" ", " ", "N">>, <<"N", "N", "E">>, <<" ", "N", "E">>,
       <<"E", "N", "E">>, <<" ", " ", "E">>, <<"E", "S", "E">>,
       <<" ", "S", "E">>, <<"S", "S", "E">>, <<" ", " ", "S">>,
       <<"S", "S", "W">>, <<" ", "S", "W">>, <<"W", "S", "W">>,
       <<" ", " ", "W">>, <<"W", "N", "W">>, <<" ", "N", "W">>,
       <<"N", "N", "W">> >>

\* What a read past the end of _bearings may deliver
StrayChars == { <<"?", "?", "?">>, <<"#", "#", "#">> }

\* azimuth / 22.5 = 2 azimuth / 45. The quotient is stored in an unsigned
\* long, which drops its fraction; a negative quotient cannot be stored (ub).
\* r = a - (int)a is then 0, so the test r >= .5 never holds
getBearing(az, ub) ==
    LET n == IF az >= 0 THEN 2 * az ELSE 2 * (az + FullCircle)
        a == IF n >= 0 THEN n \div 45 ELSE IF n > -45 THEN 0 ELSE ub
        r == a - a
        sexdec == IF 2 * r >= 1 THEN a + 1 ELSE a
    IN  sexdec % 256

\* The characters getDirection() stores in myArray
getDirection(az, ub, stray) ==
    LET d == getBearing(az, ub)
    IN  IF d < SectorCount THEN Bearings[d + 1] ELSE stray

----------------------------------------------------------------------------
\* The operations a sketch calls

Op(name, err, ret) == [op |-> name, err |-> err, ret |-> ret]

\* sess: the duration calibrate() was called with, and the extremes of the raw
\* samples since its entry, the last sample read before it counted as the seed
NoSession ==
    [seconds |-> -1, min |-> [i \in Axes |-> 0], max |-> [i \in Axes |-> 0]]

Init ==
    /\ fill \in FillValues
    /\ intBits \in {16, 32}
    /\ compass = Fresh(fill, intBits)
    /\ pc = "idle"
    /\ totalMillis = 0
    /\ startTime = 0
    /\ elapsedMillis = 0
    /\ millis = 0
    /\ cbs = <<>>
    /\ last = Op("construct", 0, FALSE)
    /\ sess = NoSession
    /\ reconfigured = FALSE
    /\ reads = 0
    /\ azimuth = 0
    /\ bearing = -1
    /\ direction = <<>>

SetAutocalibrate(autoCalibrateEnabled) ==
    /\ pc = "idle"
    /\ compass' = setAutocalibrate(compass, autoCalibrateEnabled)
    /\ last' = Op("setAutocalibrate", 0, FALSE)
    /\ UNCHANGED <<fill, intBits, pc, totalMillis, startTime, elapsedMillis,
                   millis, cbs, sess, reconfigured, reads, azimuth, bearing,
                   direction>>

SetSmoothing(steps, adv) ==
    /\ pc = "idle"
    /\ compass' = setSmoothing(compass, steps, adv)
    /\ reconfigured' = (reconfigured \/ compass._vScan > 0)
    /\ last' = Op("setSmoothing", 0, FALSE)
    /\ UNCHANGED <<fill, intBits, pc, totalMillis, startTime, elapsedMillis,
                   millis, cbs, sess, reads, azimuth, bearing, direction>>

Read(err, s, ub) ==
    /\ pc = "idle"
    /\ LET r == read(compass, err, s, ub)
       IN  /\ compass' = r[1]
           /\ last' = Op("read", err, r[2])
    /\ reads' = reads + 1
    /\ UNCHANGED <<fill, intBits, pc, totalMillis, startTime, elapsedMillis,
                   millis, cbs, sess, reconfigured, azimuth, bearing,
                   direction>>

\* Clock advances between two readings of millis()
ClockSteps == {400, 10000, 5000000}

Callback(progress, foundNewValue) == [p |-> progress, found |-> foundNewValue]

\* calibrate(), from its entry to the first callback
CalibrateBegin(seconds) ==
    /\ pc = "idle"
    /\ LET c1 == clearCalibration(compass)
           seed == [i \in Axes |-> _get(c1, i)]
           secs == IF seconds = 0 THEN DefaultSeconds ELSE seconds
       IN  /\ compass' = [c1 EXCEPT !.min = seed, !.max = seed]
           /\ totalMillis' = ToUInt(secs * MillisPerSecond, intBits)
    /\ startTime' = millis
    /\ elapsedMillis' = 0
    /\ cbs' = <<Callback(<<0, 1>>, TRUE)>>
    /\ sess' = [seconds |-> seconds, min |-> compass._vRaw,
                max |-> compass._vRaw]
    /\ pc' = "loop"
    /\ last' = Op("calibrate", 0, FALSE)
    /\ UNCHANGED <<fill, intBits, millis, reconfigured, reads, azimuth,
                   bearing, direction>>

\* progress, clamped to [0, 1]; a NaN passes both tests
Clamp01(p) ==
    IF p[2] # 0 /\ p[1] < 0 THEN <<0, 1>>
    ELSE IF p[2] # 0 /\ p[1] > p[2] THEN <<1, 1>>
    ELSE p

\* The loop test with <= for <
LoopAgain_OrEqual(elapsed, total) == elapsed <= total

\* The test of calibrate()'s do-while loop
LoopAgain(elapsed, total) == elapsed < total

\* One pass of calibrate()'s do-while loop, its exit test included
CalibrateIter(dt, err, s, ub) ==
    /\ pc = "loop"
    /\ Len(cbs) <= MaxPolls
    /\ millis' = millis + dt
    /\ \E currentTime \in {millis + dt} :
       \E e1 \in {IF currentTime - startTime > totalMillis THEN totalMillis
                  ELSE currentTime - startTime} :
       \E c1 \in {read(compass, err, s, ub)[1]} :
       \E v \in {[i \in Axes |-> _get(c1, i)]} :
       \E foundNewValue \in {\E i \in Axes : v[i] < c1.min[i] \/ v[i] > c1.max[i]} :
           /\ elapsedMillis' = e1
           /\ compass' = [c1 EXCEPT
                 !.min = [i \in Axes |-> IF v[i] < c1.min[i] THEN v[i] ELSE c1.min[i]],
                 !.max = [i \in Axes |-> IF v[i] > c1.max[i] THEN v[i] ELSE c1.max[i]]]
           /\ cbs' = Append(cbs, Callback(Clamp01(Frac(e1, totalMillis)),
                                          foundNewValue))
           /\ pc' = IF LoopAgain(e1, totalMillis) THEN "loop" ELSE "exit"
    /\ sess' = IF err # 0 THEN sess
               ELSE [sess EXCEPT
                       !.min = [i \in Axes |-> IF s[i] < sess.min[i]
                                               THEN s[i] ELSE sess.min[i]],
                       !.max = [i \in Axes |-> IF s[i] > sess.max[i]
                                               THEN s[i] ELSE sess.max[i]]]
    /\ last' = Op("calibrate", err, FALSE)
    /\ UNCHANGED <<fill, intBits, totalMillis, startTime, reconfigured, reads,
                   azimuth, bearing, direction>>

\* calibrate(), from the loop's exit to its return
CalibrateEnd ==
    /\ pc = "exit"
    /\ compass' = setCalibration(compass, compass.min, compass.max)
    /\ cbs' = Append(cbs, Callback(<<1, 1>>, FALSE))
    /\ pc' = "idle"
    /\ last' = Op("calibrated", 0, FALSE)
    /\ UNCHANGED <<fill, intBits, totalMillis, startTime, elapsedMillis,
                   millis, sess, reconfigured, reads, azimuth, bearing,
                   direction>>

\* A sketch that configures the driver and calls read()
Next ==
    \/ \E b \in BOOLEAN : SetAutocalibrate(b)
    \/ \E steps \in 1..MaxSteps, adv \in BOOLEAN : SetSmoothing(steps, adv)
    \/ \E err \in BusCodes, s \in Samples, ub \in UBInts :
          reads < MaxReads /\ Read(err, Vec(s), ub)

Spec == Init /\ [][Next]_vars

\* A sketch that configures the driver, reads at most MaxPreReads times and
\* then runs one calibrate() session of one second, polled every TickMillis
NextCal ==
    \/ \E b \in BOOLEAN : cbs = <<>> /\ SetAutocalibrate(b)
    \/ \E steps \in 1..MaxSteps, adv \in BOOLEAN :
          cbs = <<>> /\ SetSmoothing(steps, adv)
    \/ \E err \in BusCodes, s \in Samples, ub \in UBInts :
          cbs = <<>> /\ reads < MaxPreReads /\ Read(err, Vec(s), ub)
    \/ cbs = <<>> /\ CalibrateBegin(1)
    \/ \E err \in BusCodes, s \in Samples, ub \in UBInts :
          CalibrateIter(TickMillis, err, Vec(s), ub)
    \/ CalibrateEnd

SpecCal == Init /\ [][NextCal]_vars

\* A sketch that runs one calibrate() session on a driver it has not touched,
\* for any duration and any pace of the clock
NextClock ==
    \/ \E seconds \in 0..MaxSeconds : cbs = <<>> /\ CalibrateBegin(seconds)
    \/ \E dt \in ClockSteps, err \in BusCodes, s \in Samples, ub \in UBInts :
          CalibrateIter(dt, err, Vec(s), ub)
    \/ CalibrateEnd

SpecClock == Init /\ [][NextClock]_vars

\* A sketch that asks for the direction of an azimuth
GetDirection(az, ub, stray) ==
    /\ pc = "idle"
    /\ azimuth' = az
    /\ bearing' = getBearing(az, ub)
    /\ direction' = getDirection(az, ub, stray)
    /\ last' = Op("getDirection", 0, FALSE)
    /\ UNCHANGED <<compass, fill, intBits, pc, totalMillis, startTime,
                   elapsedMillis, millis, cbs, sess, reconfigured, reads>>

NextBearing ==
    \E az \in (1 - MaxAzimuth)..MaxAzimuth, ub \in UBInts, stray \in StrayChars :
        bearing = -1 /\ GetDirection(az, ub, stray)

SpecBearing == Init /\ [][NextBearing]_vars

\* A sketch whose driver object has static storage, which configures
\* smoothing over RampLen steps and then reads samples of the ramp
NextRamp ==
    \/ \E adv \in BOOLEAN : reads = 0 /\ SetSmoothing(RampLen, adv)
    \/ \E err \in BusCodes, s \in RampSamples, ub \in UBInts :
          reads < RampLen /\ Read(err, Vec(s), ub)

InitRamp == Init /\ fill = 0

SpecRamp == InitRamp /\ [][NextRamp]_vars

----------------------------------------------------------------------------
\* Properties

Identity(c) ==
    /\ \A i \in Axes : c._offset[i] = 0
    /\ \A i \in Axes : c._scale[i] = <<1, 1>>

RECURSIVE WindowSum(_, _, _)
WindowSum(h, i, n) == IF n <= 0 THEN 0 ELSE h[n - 1][i] + WindowSum(h, i, n - 1)

SuccessfulRead == last.op = "read" /\ last.err = 0

FailedRead == last.op = "read" /\ last.err # 0

\* The ramp 10, 20, .., 10 RampLen has gone through a fresh driver set to
\* advanced smoothing over RampLen steps
RampRead ==
    /\ compass._smoothUse /\ compass._smoothAdvanced
    /\ compass._smoothSteps = RampLen
    /\ compass._vScan = RampLen
    /\ \A j \in 0..(RampLen - 1) : \A i \in Axes :
          compass._vHistory[j][i] = 10 * (j + 1)

\* C1: after the reads 10, 20, 30, 40, 50 on a fresh driver with identity
\* calibration and setSmoothing(5, true), getX(), getY() and getZ() return the
\* sum less the largest and the smallest value, over steps - 2: that is 30
C1_RampAverage ==
    RampRead =>
        \A i \in Axes :
            _get(compass, i) =
                Round(WindowSum(compass._vHistory, i, RampLen) - 10 * RampLen - 10,
                      RampLen - 2)

\* C2: with smoothing set once on a driver whose history started all zero,
\* after every successful read each running total is the sum of the first
\* _smoothSteps history rows
C2_TotalsAreWindowSum ==
    (SuccessfulRead /\ compass._smoothUse /\ fill = 0 /\ ~reconfigured) =>
        \A i \in Axes :
            compass._vTotals[i]
              = WindowSum(compass._vHistory, i, compass._smoothSteps)

\* round(n / 22.5) with halves rounded up, for n >= 0
RoundSector(n) == (4 * n + 45) \div 90

\* C3: for an azimuth in 0..359 getBearing() is round(azimuth / 22.5), and for
\* an azimuth in -359..-1 it is round((azimuth + 360) / 22.5), halves up
C3_BearingRounds ==
    (bearing # -1 /\ azimuth > -FullCircle /\ azimuth < FullCircle) =>
        bearing = RoundSector(IF azimuth >= 0 THEN azimuth
                              ELSE azimuth + FullCircle)

\* C4: for an azimuth in -359..360 getBearing() is a sector in 0..15, and
\* getDirection() delivers a row of the bearing-name table
C4_BearingInTable ==
    (bearing # -1 /\ azimuth > -FullCircle /\ azimuth <= FullCircle) =>
        /\ bearing \in 0..(SectorCount - 1)
        /\ \E d \in 1..SectorCount : direction = Bearings[d]

\* C5: calibrate(0, callback) leaves its loop at the first pass that finds 10
\* seconds (10000 ms) or more gone since the session's start, and not before
C5_ZeroMeansTenSeconds ==
    (sess.seconds = 0 /\ pc \in {"loop", "exit"} /\ Len(cbs) > 1) =>
        (pc = "exit" <=> millis - startTime >= 10 * MillisPerSecond)

FracLeq(p, q) == p[1] * q[2] <= q[1] * p[2]

C7_CalibratesOnRawExtremes ==
    /\ pc \in {"loop", "exit"} => Identity(compass)
    /\ last.op = "calibrated" =>
          compass.min = sess.min /\ compass.max = sess.max

\* C8: a read() whose bus write ends with a nonzero code returns false and
\* changes no member of the driver, so getX(), getY(), getZ() are as before
C8_FailedReadKeepsState ==
    [][(last'.op = "read" /\ last'.err # 0) =>
          /\ last'.ret = FALSE
          /\ compass' = compass
          /\ \A i \in Axes : _get(compass', i) = _get(compass, i)]_vars

\* A failed read of a driver that holds samples, a history and a calibration
C8_Witness ==
    /\ FailedRead
    /\ compass._smoothUse /\ compass._autoCalibrate
    /\ compass._vTotals[0] # 0 /\ compass._vRaw[0] # 0
    /\ ~Identity(compass)
    /\ compass._vScan > 1

Extremes(c) == <<c.min, c.max, c._offset, c._scale>>

\* C9: a successful read() in auto-calibrate mode returns true exactly when
\* the new raw sample is below the running minimum or above the running
\* maximum on some axis, and one that returns false leaves the minima, the
\* maxima, the offsets and the scales alone; without auto-calibrate read()
\* returns false and leaves all of them alone
C9_AutoCalibrateReturn ==
    [][(last'.op = "read" /\ last'.err = 0) =>
          IF compass._autoCalibrate
          THEN /\ last'.ret = (\E i \in Axes :
                                  \/ compass'._vRaw[i] < compass.min[i]
                                  \/ compass'._vRaw[i] > compass.max[i])
               /\ ~last'.ret => Extremes(compass') = Extremes(compass)
          ELSE /\ last'.ret = FALSE
               /\ Extremes(compass') = Extremes(compass)]_vars

\* An auto-calibrating read that met no new extreme, after reads that did and
\* that derived a finite calibration from them
C9_Witness ==
    /\ SuccessfulRead /\ compass._autoCalibrate /\ ~last.ret
    /\ ~Identity(compass)
    /\ \A i \in Axes : compass._scale[i][2] # 0
    /\ \A i \in Axes : compass.min[i] < compass.max[i]
    /\ \A i \in Axes : compass.min[i] <= compass._vRaw[i]
                       /\ compass._vRaw[i] <= compass.max[i]

====
